---- MODULE Spec2Model ----
(***************************************************************************)
(* A model of onidle.py: the command line (__main__), the probe registry   *)
(* (init_probes / which), the one-shot polling loop (main), the continuous *)
(* loop (test) and the action runner (run_command).                        *)
(*                                                                         *)
(* Python values are modelled as strings: the probe verdicts True, False   *)
(* and None are "True", "False" and "None".  A probe that raises is the    *)
(* outcome "raise"; no try/except exists anywhere in onidle.py, so a raise *)
(* propagates to the interpreter, which ends the process with status 1.    *)
(* Standard output is kept as a bag of lines (a line is <<text, value>>);  *)
(* the values of timestamps and of per-probe diagnostics are left out.     *)
(***************************************************************************)
EXTENDS Integers, Sequences, FiniteSets, Bags, TLC

VARIABLES
    args,           \* argparse namespace: list, test, verbose, command (its length)
    host,           \* host facts that cannot change during a run
    VERBOSE,        \* the module global VERBOSE
    pc,             \* position of the single thread of control
    all_probes,     \* main's all_probes / test's probes: a sequence of probe names
    results,        \* the verdicts collected so far in the current cycle
    final,          \* value of all(x != False for x in results), "unset" before any
    stdout,         \* bag of lines written to standard output
    exit_status,    \* process exit status, -1 while the process runs
    exc,            \* the uncaught exception that ended the process, "none" if none
    invoked,        \* number of probe calls made so far
    sleeps,         \* number of completed time.sleep(60) calls
    launches,       \* number of subprocess.run(cmdline) calls made by run_command
    cycles,         \* number of cycles whose decision has been computed
    nfalse,         \* number of those cycles whose decision was false
    calls           \* names of the probes called so far in the current cycle

vars == <<args, host, VERBOSE, pc, all_probes, results, final, stdout,
          exit_status, exc, invoked, sleeps, launches, cycles, nfalse, calls>>

\* ------------------------------------------------------------------ bounds

\* Number of polling cycles a run of the model may start.
MaxCycles == 3

\* Longest verdict sequence handed to the aggregation on its own.
MaxLen == 4

\* ------------------------------------------------------------------ values

\* The three values a probe may return (True, False, None).
Verdicts == {"True", "False", "None"}

\* What each probe's return statements can produce; every probe can also raise
\* (subprocess.run(check=True), open, assert, int/float parsing, min of []).
ProbeReturns(p) ==
    CASE p = "systemd_wake"  -> {"None", "True", "False"}
      [] p = "proc_uptime"   -> {"True", "False"}
      [] p = "proc_loadavg"  -> {"True", "False"}
      [] p = "idle_terminal" -> {"True", "False"}
      [] p = "xprintidle"    -> {"True", "False"}

ProbeOutcomes(p) == ProbeReturns(p) \cup {"raise"}

\* What subprocess.run(cmdline) can do in run_command: return with exit code
\* zero, return with a non-zero exit code, or raise because the command cannot
\* be started (FileNotFoundError, PermissionError).
CommandOutcomes == {"exit0", "exit_nonzero", "launch_error"}

\* ------------------------------------------------------------------ helpers

\* print(...): one more line on standard output.
Emit(out, line) == out (+) SetToBag({line})

\* verbose(...): prints only when the global VERBOSE is set.
verbose(out, flag, line) == IF flag THEN Emit(out, line) ELSE out

Lines(out, text) == {l \in BagToSet(out) : l[1] = text}

\* Number of lines with the given text on standard output.
CountText(out, text) ==
    LET RECURSIVE Sum(_)
        Sum(S) == IF S = {} THEN 0
                  ELSE LET l == CHOOSE x \in S : TRUE
                       IN  CopiesIn(l, out) + Sum(S \ {l})
    IN  Sum(Lines(out, text))

\* which(binary_name): the path of the binary, or None when `which` exits non-zero.
which(h, binary_name) ==
    IF binary_name \in h.on_path THEN "/usr/bin/" \o binary_name ELSE "None"

\* Variant: xprintidle is appended without looking at what which returned.
init_probes_NoCheck(h) ==
    Append(<<"systemd_wake", "proc_uptime", "proc_loadavg", "idle_terminal">>, "xprintidle")

\* init_probes(): the four universal probes, then xprintidle if which finds it.
init_probes(h) ==
    LET probes == <<"systemd_wake", "proc_uptime", "proc_loadavg", "idle_terminal">>
        xprintidle_path == which(h, "xprintidle")
    IN  IF xprintidle_path # "None" THEN Append(probes, "xprintidle") ELSE probes

\* Variant: the test is truthiness (all(results)), so None blocks too.
NotEqFalse_Truthy(x) == x = "True"

\* x != False, for x one of True, False, None.
NotEqFalse(x) == x # "False"

\* Variant: a loop that overwrites its flag, so only the last verdict counts.
Aggregate_LastWins(rs) == rs = <<>> \/ NotEqFalse(rs[Len(rs)])

\* all(x != False for x in results): Python's all() walks the sequence from the
\* front and stops with False at the first element that fails the test.
RECURSIVE Aggregate(_)
Aggregate(rs) ==
    IF rs = <<>> THEN TRUE
    ELSE IF ~NotEqFalse(Head(rs)) THEN FALSE
    ELSE Aggregate(Tail(rs))

PyBool(b) == IF b THEN "True" ELSE "False"

\* ------------------------------------------------------------------ initial state

ArgSpace == [list : BOOLEAN, test : BOOLEAN, verbose : BOOLEAN, command : 0..1]

HostSpace == [on_path : SUBSET {"xprintidle"}]

\* The state after parser.parse_args() returned (line 290).
Init ==
    /\ args \in ArgSpace
    /\ host \in HostSpace
    /\ VERBOSE = FALSE
    /\ pc = "parsed"
    /\ all_probes = <<>>
    /\ results = <<>>
    /\ final = "unset"
    /\ stdout = EmptyBag
    /\ exit_status = -1
    /\ exc = "none"
    /\ invoked = 0
    /\ sleeps = 0
    /\ launches = 0
    /\ cycles = 0
    /\ nfalse = 0
    /\ calls = <<>>

\* ------------------------------------------------------------------ __main__

\* Variant: the usage error is printed but sys.exit(1) is missing, so main runs.
UsageError_NoExit ==
    /\ pc = "parsed"
    /\ ~args.list /\ ~args.test /\ args.command = 0
    /\ stdout' = Emit(Emit(stdout, <<"error: the following arguments are required: command", "">>),
                      <<"usage", "">>)
    /\ VERBOSE' = args.verbose
    /\ all_probes' = init_probes(host)
    /\ pc' = "main"
    /\ UNCHANGED <<args, host, results, final, exit_status, exc,
                   invoked, sleeps, launches, cycles, nfalse, calls>>

\* Lines 292-296: no command and neither --list nor --test.
UsageError ==
    /\ pc = "parsed"
    /\ ~args.list /\ ~args.test /\ args.command = 0
    /\ stdout' = Emit(Emit(stdout, <<"error: the following arguments are required: command", "">>),
                      <<"usage", "">>)
    /\ exit_status' = 1
    /\ pc' = "exited"
    /\ UNCHANGED <<args, host, VERBOSE, all_probes, results, final, exc,
                   invoked, sleeps, launches, cycles, nfalse, calls>>

\* Lines 298-301 and 231: set VERBOSE, call main, which calls init_probes.
StartMain ==
    /\ pc = "parsed"
    /\ ~(~args.list /\ ~args.test /\ args.command = 0)
    /\ VERBOSE' = args.verbose
    /\ all_probes' = init_probes(host)
    /\ stdout' = IF which(host, "xprintidle") # "None"
                 THEN verbose(stdout, args.verbose, <<"found", which(host, "xprintidle")>>)
                 ELSE stdout
    /\ pc' = "main"
    /\ UNCHANGED <<args, host, results, final, exit_status, exc,
                   invoked, sleeps, launches, cycles, nfalse, calls>>

\* ------------------------------------------------------------------ main

RECURSIVE EmitNames(_, _)
EmitNames(out, ps) ==
    IF ps = <<>> THEN out
    ELSE EmitNames(Emit(out, <<" * ", Head(ps)>>), Tail(ps))

\* Variant: the return after the listing is missing, so main goes on.
ListProbes_FallThrough ==
    /\ pc = "main"
    /\ args.list
    /\ stdout' = EmitNames(Emit(stdout, <<"All Probes:", "">>), all_probes)
    /\ pc' = IF args.test THEN "test_loop" ELSE "main_loop"
    /\ UNCHANGED <<args, host, VERBOSE, all_probes, results, final, exit_status, exc,
                   invoked, sleeps, launches, cycles, nfalse, calls>>

\* Lines 233-237: --list prints the probe names and returns; the process ends.
ListProbes ==
    /\ pc = "main"
    /\ args.list
    /\ stdout' = EmitNames(Emit(stdout, <<"All Probes:", "">>), all_probes)
    /\ exit_status' = 0
    /\ pc' = "exited"
    /\ UNCHANGED <<args, host, VERBOSE, all_probes, results, final, exc,
                   invoked, sleeps, launches, cycles, nfalse, calls>>

\* Lines 239-244: --test forces VERBOSE and enters test(all_probes).
EnterTest ==
    /\ pc = "main"
    /\ ~args.list /\ args.test
    /\ stdout' = verbose(stdout, VERBOSE, <<"using probes", "">>)
    /\ VERBOSE' = TRUE
    /\ pc' = "test_loop"
    /\ UNCHANGED <<args, host, all_probes, results, final, exit_status, exc,
                   invoked, sleeps, launches, cycles, nfalse, calls>>

\* Lines 239 and 247-252: one-shot mode prints the start line and enters the loop.
EnterLoop ==
    /\ pc = "main"
    /\ ~args.list /\ ~args.test
    /\ stdout' = Emit(verbose(stdout, VERBOSE, <<"using probes", "">>),
                      <<"onidle starting", "">>)
    /\ pc' = "main_loop"
    /\ UNCHANGED <<args, host, VERBOSE, all_probes, results, final, exit_status, exc,
                   invoked, sleeps, launches, cycles, nfalse, calls>>

\* Variant: the call is wrapped in try/except and a raise counts as None.
CallProbe_Swallow(here, next) ==
    /\ pc = here
    /\ Len(calls) < Len(all_probes)
    /\ \E r \in ProbeOutcomes(all_probes[Len(calls) + 1]) :
          /\ invoked' = invoked + 1
          /\ calls' = Append(calls, all_probes[Len(calls) + 1])
          /\ results' = Append(results, IF r = "raise" THEN "None" ELSE r)
          /\ exc' = IF r = "raise" THEN "probe_error" ELSE exc
          /\ pc' = IF Len(calls) + 1 = Len(all_probes) THEN next ELSE here
          /\ UNCHANGED exit_status

\* Variant: the loop stops calling probes at the first False (a short-circuit).
CallProbe_ShortCircuit(here, next) ==
    /\ pc = here
    /\ Len(calls) < Len(all_probes)
    /\ \E r \in ProbeOutcomes(all_probes[Len(calls) + 1]) :
          /\ invoked' = invoked + 1
          /\ calls' = Append(calls, all_probes[Len(calls) + 1])
          /\ IF r = "raise"
             THEN /\ exc' = "probe_error"
                  /\ exit_status' = 1
                  /\ pc' = "exited"
                  /\ UNCHANGED results
             ELSE /\ results' = Append(results, r)
                  /\ pc' = IF Len(calls) + 1 = Len(all_probes) \/ r = "False"
                           THEN next ELSE here
                  /\ UNCHANGED <<exc, exit_status>>

\* Variant: a probe that raises is logged and left out of the results, and the
\* cycle goes on with the next probe.
CallProbe_Exclude(here, next) ==
    /\ pc = here
    /\ Len(calls) < Len(all_probes)
    /\ \E r \in ProbeOutcomes(all_probes[Len(calls) + 1]) :
          /\ invoked' = invoked + 1
          /\ calls' = Append(calls, all_probes[Len(calls) + 1])
          /\ results' = IF r = "raise" THEN results ELSE Append(results, r)
          /\ exc' = IF r = "raise" THEN "probe_error" ELSE exc
          /\ pc' = IF Len(calls) + 1 = Len(all_probes) THEN next ELSE here
          /\ UNCHANGED exit_status

\* Calling probe number Len(calls) + 1: it returns a verdict, which is
\* collected, or it raises, which ends the process (nothing catches it).
CallProbe(here, next) ==
    /\ pc = here
    /\ Len(calls) < Len(all_probes)
    /\ \E r \in ProbeOutcomes(all_probes[Len(calls) + 1]) :
          /\ invoked' = invoked + 1
          /\ calls' = Append(calls, all_probes[Len(calls) + 1])
          /\ IF r = "raise"
             THEN /\ exc' = "probe_error"
                  /\ exit_status' = 1
                  /\ pc' = "exited"
                  /\ UNCHANGED results
             ELSE /\ results' = Append(results, r)
                  /\ pc' = IF Len(calls) + 1 = Len(all_probes) THEN next ELSE here
                  /\ UNCHANGED <<exc, exit_status>>

\* Variant: the sleep sits at the top of the loop, before the first check.
MainCycle_SleepFirst ==
    /\ pc = "main_loop"
    /\ cycles < MaxCycles
    /\ sleeps' = sleeps + 1
    /\ stdout' = verbose(stdout, VERBOSE, <<"check at", "">>)
    /\ results' = <<>>
    /\ calls' = <<>>
    /\ pc' = IF Len(all_probes) = 0 THEN "main_decide" ELSE "main_probes"
    /\ UNCHANGED <<args, host, VERBOSE, all_probes, final, exit_status, exc,
                   invoked, launches, cycles, nfalse>>

\* Line 257: top of the while loop of main.
MainCycle ==
    /\ pc = "main_loop"
    /\ cycles < MaxCycles
    /\ stdout' = verbose(stdout, VERBOSE, <<"check at", "">>)
    /\ results' = <<>>
    /\ calls' = <<>>
    /\ pc' = IF Len(all_probes) = 0 THEN "main_decide" ELSE "main_probes"
    /\ UNCHANGED <<args, host, VERBOSE, all_probes, final, exit_status, exc,
                   invoked, sleeps, launches, cycles, nfalse>>

\* Line 258: results = [probe() for probe in all_probes], one call per step.
MainProbe ==
    /\ CallProbe("main_probes", "main_decide")
    /\ UNCHANGED <<args, host, VERBOSE, all_probes, final, stdout,
                   sleeps, launches, cycles, nfalse>>

\* Variant: a false decision sticks: once a cycle decided false, later cycles
\* decide false as well.
MainDecide_Sticky ==
    /\ pc = "main_decide"
    /\ stdout' = verbose(verbose(stdout, VERBOSE, <<"results", "">>), VERBOSE, <<"", "">>)
    /\ final' = PyBool(Aggregate(results) /\ final # "False")
    /\ cycles' = cycles + 1
    /\ nfalse' = IF Aggregate(results) /\ final # "False" THEN nfalse ELSE nfalse + 1
    /\ pc' = IF Aggregate(results) /\ final # "False" THEN "main_act" ELSE "main_sleep"
    /\ UNCHANGED <<args, host, VERBOSE, all_probes, results, exit_status, exc,
                   invoked, sleeps, launches, calls>>

\* Lines 259-261: the decision of the cycle.
MainDecide ==
    /\ pc = "main_decide"
    /\ stdout' = verbose(verbose(stdout, VERBOSE, <<"results", "">>), VERBOSE, <<"", "">>)
    /\ final' = PyBool(Aggregate(results))
    /\ cycles' = cycles + 1
    /\ nfalse' = IF Aggregate(results) THEN nfalse ELSE nfalse + 1
    /\ pc' = IF Aggregate(results) THEN "main_act" ELSE "main_sleep"
    /\ UNCHANGED <<args, host, VERBOSE, all_probes, results, exit_status, exc,
                   invoked, sleeps, launches, calls>>

\* run_command(cmdline), lines 224-227, on standard output `out`: the lines
\* printed once subprocess.run returned with outcome `o`.
run_command(out, o) ==
    IF o = "exit_nonzero" THEN Emit(out, <<"process exited with", "nonzero">>) ELSE out

\* Variant: the return after run_command is missing, so the loop sleeps and
\* polls again.
MainAct_NoReturn ==
    /\ pc = "main_act"
    /\ \E o \in CommandOutcomes :
          /\ launches' = launches + 1
          /\ IF o = "launch_error"
             THEN /\ stdout' = Emit(stdout, <<"running command", "">>)
                  /\ exc' = "launch_error"
                  /\ exit_status' = 1
                  /\ pc' = "exited"
             ELSE /\ stdout' = run_command(Emit(stdout, <<"running command", "">>), o)
                  /\ pc' = "main_sleep"
                  /\ UNCHANGED <<exc, exit_status>>
    /\ UNCHANGED <<args, host, VERBOSE, all_probes, results, final,
                   invoked, sleeps, cycles, nfalse, calls>>

\* Variant: the sleep comes before the test of the decision, so the command is
\* launched one poll interval after the decision.
MainAct_SleepFirst ==
    /\ pc = "main_act"
    /\ sleeps' = sleeps + 1
    /\ \E o \in CommandOutcomes :
          /\ launches' = launches + 1
          /\ IF o = "launch_error"
             THEN /\ stdout' = Emit(stdout, <<"running command", "">>)
                  /\ exc' = "launch_error"
                  /\ exit_status' = 1
             ELSE /\ stdout' = run_command(Emit(stdout, <<"running command", "">>), o)
                  /\ exit_status' = 0
                  /\ UNCHANGED exc
    /\ pc' = "exited"
    /\ UNCHANGED <<args, host, VERBOSE, all_probes, results, final,
                   invoked, cycles, nfalse, calls>>

\* Variant: the command's exit code becomes the exit status of the process
\* (subprocess.run(cmdline, check=True)).
MainAct_CheckExit ==
    /\ pc = "main_act"
    /\ \E o \in CommandOutcomes :
          /\ launches' = launches + 1
          /\ IF o = "launch_error"
             THEN /\ stdout' = Emit(stdout, <<"running command", "">>)
                  /\ exc' = "launch_error"
                  /\ exit_status' = 1
             ELSE /\ stdout' = run_command(Emit(stdout, <<"running command", "">>), o)
                  /\ exit_status' = IF o = "exit_nonzero" THEN 1 ELSE 0
                  /\ UNCHANGED exc
    /\ pc' = "exited"
    /\ UNCHANGED <<args, host, VERBOSE, all_probes, results, final,
                   invoked, sleeps, cycles, nfalse, calls>>

\* Variant: a failure to start the command is caught and main returns normally.
MainAct_CatchLaunch ==
    /\ pc = "main_act"
    /\ \E o \in CommandOutcomes :
          /\ launches' = launches + 1
          /\ IF o = "launch_error"
             THEN /\ stdout' = Emit(stdout, <<"running command", "">>)
                  /\ exc' = "launch_error"
                  /\ exit_status' = 0
             ELSE /\ stdout' = run_command(Emit(stdout, <<"running command", "">>), o)
                  /\ exit_status' = 0
                  /\ UNCHANGED exc
    /\ pc' = "exited"
    /\ UNCHANGED <<args, host, VERBOSE, all_probes, results, final,
                   invoked, sleeps, cycles, nfalse, calls>>

\* Lines 262-265: print the launch line, run the command, return from main.
MainAct ==
    /\ pc = "main_act"
    /\ \E o \in CommandOutcomes :
          /\ launches' = launches + 1
          /\ IF o = "launch_error"
             THEN /\ stdout' = Emit(stdout, <<"running command", "">>)
                  /\ exc' = "launch_error"
                  /\ exit_status' = 1
             ELSE /\ stdout' = run_command(Emit(stdout, <<"running command", "">>), o)
                  /\ exit_status' = 0
                  /\ UNCHANGED exc
    /\ pc' = "exited"
    /\ UNCHANGED <<args, host, VERBOSE, all_probes, results, final,
                   invoked, sleeps, cycles, nfalse, calls>>

\* Line 267: time.sleep(60), then back to the top of the loop.
MainSleep ==
    /\ pc = "main_sleep"
    /\ sleeps' = sleeps + 1
    /\ pc' = "main_loop"
    /\ UNCHANGED <<args, host, VERBOSE, all_probes, results, final, stdout,
                   exit_status, exc, invoked, launches, cycles, nfalse, calls>>

\* ------------------------------------------------------------------ test

\* Variant: test sleeps at the top of its loop, before the first probe.
TestCycle_SleepFirst ==
    /\ pc = "test_loop"
    /\ cycles < MaxCycles
    /\ sleeps' = sleeps + 1
    /\ stdout' = Emit(stdout, <<">>> idle probe at", "">>)
    /\ results' = <<>>
    /\ calls' = <<>>
    /\ pc' = IF Len(all_probes) = 0 THEN "test_decide" ELSE "test_probes"
    /\ UNCHANGED <<args, host, VERBOSE, all_probes, final, exit_status, exc,
                   invoked, launches, cycles, nfalse>>

\* Lines 208-211: top of the while loop of test.
TestCycle ==
    /\ pc = "test_loop"
    /\ cycles < MaxCycles
    /\ stdout' = Emit(stdout, <<">>> idle probe at", "">>)
    /\ results' = <<>>
    /\ calls' = <<>>
    /\ pc' = IF Len(all_probes) = 0 THEN "test_decide" ELSE "test_probes"
    /\ UNCHANGED <<args, host, VERBOSE, all_probes, final, exit_status, exc,
                   invoked, sleeps, launches, cycles, nfalse>>

\* Lines 212-216: one probe of the for loop.  "running probe" is printed before
\* the call, "probe result" only when the call returned.
TestProbe ==
    /\ CallProbe("test_probes", "test_decide")
    /\ stdout' = IF exc' = "probe_error"
                 THEN Emit(stdout, <<"running probe", "">>)
                 ELSE Emit(Emit(stdout, <<"running probe", "">>), <<"probe result", "">>)
    /\ UNCHANGED <<args, host, VERBOSE, all_probes, final,
                   sleeps, launches, cycles, nfalse>>

\* Lines 218-219: the decision of the cycle, printed.
TestDecide ==
    /\ pc = "test_decide"
    /\ final' = PyBool(Aggregate(results))
    /\ stdout' = Emit(stdout, <<"final result", PyBool(Aggregate(results))>>)
    /\ cycles' = cycles + 1
    /\ nfalse' = IF Aggregate(results) THEN nfalse ELSE nfalse + 1
    /\ pc' = "test_sleep"
    /\ UNCHANGED <<args, host, VERBOSE, all_probes, results, exit_status, exc,
                   invoked, sleeps, launches, calls>>

\* Variant: test returns after its first cycle instead of looping.
TestSleep_Return ==
    /\ pc = "test_sleep"
    /\ sleeps' = sleeps + 1
    /\ exit_status' = 0
    /\ pc' = "exited"
    /\ UNCHANGED <<args, host, VERBOSE, all_probes, results, final, stdout,
                   exc, invoked, launches, cycles, nfalse, calls>>

\* Line 221: time.sleep(60), then back to the top of the loop.
TestSleep ==
    /\ pc = "test_sleep"
    /\ sleeps' = sleeps + 1
    /\ pc' = "test_loop"
    /\ UNCHANGED <<args, host, VERBOSE, all_probes, results, final, stdout,
                   exit_status, exc, invoked, launches, cycles, nfalse, calls>>

\* ------------------------------------------------------------------ specification

Next ==
    \/ UsageError
    \/ StartMain
    \/ ListProbes
    \/ EnterTest
    \/ EnterLoop
    \/ MainCycle
    \/ MainProbe
    \/ MainDecide
    \/ MainAct
    \/ MainSleep
    \/ TestCycle
    \/ TestProbe
    \/ TestDecide
    \/ TestSleep

Spec == Init /\ [][Next]_vars

\* Under the scheduling of a single sequential thread every enabled step is
\* eventually taken (probes, the sleep and the command are taken to return).
SpecLive == Spec /\ WF_vars(Next)

\* ------------------------------------------------------------------ aggregation alone

\* Every verdict sequence of length at most MaxLen.
VerdictSeqs == UNION {[1..n -> Verdicts] : n \in 0..MaxLen}

\* A list of verdicts about to be handed to all(x != False for x in results).
InitAgg ==
    /\ args = [list |-> FALSE, test |-> FALSE, verbose |-> FALSE, command |-> 1]
    /\ host = [on_path |-> {}]
    /\ VERBOSE = FALSE
    /\ pc = "aggregate"
    /\ all_probes = <<>>
    /\ results \in VerdictSeqs
    /\ final = "unset"
    /\ stdout = EmptyBag
    /\ exit_status = -1
    /\ exc = "none"
    /\ invoked = 0
    /\ sleeps = 0
    /\ launches = 0
    /\ cycles = 0
    /\ nfalse = 0
    /\ calls = <<>>

\* Lines 218 and 261: the aggregation applied to the list.
ApplyAggregate ==
    /\ pc = "aggregate"
    /\ final' = PyBool(Aggregate(results))
    /\ pc' = "aggregated"
    /\ UNCHANGED <<args, host, VERBOSE, all_probes, results, stdout, exit_status, exc,
                   invoked, sleeps, launches, cycles, nfalse, calls>>

NextAgg == ApplyAggregate

SpecAgg == InitAgg /\ [][NextAgg]_vars

\* ------------------------------------------------------------------ probe bodies

\* Largest uptime, in whole seconds, read from /proc/uptime.
MaxUptime == 720

\* Largest logical CPU count.
MaxCpu == 8

\* Largest 1-minute load average, in hundredths (/proc/loadavg has two decimals).
MaxLoad == 450

\* Length of the model's calendar year in minutes, and the last minute of the
\* model's time line.  A journal line carries month, day and time but no year.
YearMinutes == 12

MaxNow == 17

\* Largest number of lines of journalctl output.
MaxJournal == 2

\* Largest number of lines of `who -u` output.
MaxSessions == 3

\* systemd_wake, lines 36-66, on the journalctl output `journal` (a sequence of
\* lines, each with its kind and the minute it was written at) read at minute
\* `now`.  The loop keeps the last line ending in "System returned from sleep
\* state." in last_wake_line, but the timestamp is then cut from `line`, the
\* loop variable, which is the last line of the output.  A "-- Boot --" marker
\* line has no timestamp, so strptime raises on it.  strptime yields the year
\* 1900 and replace(year=now.year) puts the stamp into the current year.
systemd_wake(journal, now) ==
    IF ~\E i \in 1..Len(journal) : journal[i].kind = "wake"
    THEN "None"
    ELSE LET line == journal[Len(journal)]
         IN  IF line.kind = "marker"
             THEN "raise"
             ELSE LET dt  == (now \div YearMinutes) * YearMinutes + (line.at % YearMinutes)
                      ago == now - dt
                  IN  PyBool(ago * 60 >= 60 * 10)

\* proc_uptime, lines 69-83, on the lines of /proc/uptime (each line the
\* sequence of its numbers, in whole seconds).
proc_uptime(content) ==
    IF Len(content) # 1 THEN "raise"
    ELSE IF Len(content[1]) = 0 THEN "raise"
    ELSE LET total_seconds == content[1][1]
             total_minutes == total_seconds \div 60
         IN  PyBool(total_minutes > 10)

\* proc_loadavg, lines 86-101; the load is in hundredths.
proc_loadavg(cpu_count, load) ==
    LET current_load   == load
        half_cpu_count == cpu_count \div 2
    IN  PyBool(current_load < 100 * half_cpu_count)

\* parse, lines 108-118, gives None for a field that is not "." and has no colon.
parse_is_none(f) == f.text # "." /\ f.text # "hh:mm"

\* parse, lines 108-118, on a field for which it does not give None.
parse(f) == IF f.text = "." THEN 0 ELSE f.h * 60 + f.m

\* min of a non-empty sequence of numbers.
RECURSIVE PyMin(_)
PyMin(xs) ==
    IF Len(xs) = 1 THEN xs[1]
    ELSE LET m == PyMin(Tail(xs)) IN IF Head(xs) <= m THEN Head(xs) ELSE m

RECURSIVE ParseAll(_)
ParseAll(fs) ==
    IF fs = <<>> THEN <<>>
    ELSE IF parse_is_none(Head(fs)) THEN ParseAll(Tail(fs))
    ELSE <<parse(Head(fs))>> \o ParseAll(Tail(fs))

\* idle_terminal, lines 104-135, on the idle fields (fields[4]) of the lines of
\* `who -u`.  With no session the single empty line has no fields[4]; with no
\* parsable field min() is called on an empty list.
idle_terminal(idle_times) ==
    IF idle_times = <<>> THEN "raise"
    ELSE LET tmp == ParseAll(idle_times)
         IN  IF tmp = <<>> THEN "raise"
             ELSE LET idle_minutes == PyMin(tmp)
                  IN  PyBool(idle_minutes >= 5)

\* The idle fields `who -u` prints: "." (active in the last minute), "old"
\* (idle for more than 24 hours) or hours:minutes.
IdleFields ==
    {[text |-> ".", h |-> 0, m |-> 0], [text |-> "old", h |-> 0, m |-> 0]}
    \cup [text : {"hh:mm"}, h : {0, 1}, m : {0, 4, 5, 7, 9, 12, 20}]

JournalLines(now) == [kind : {"wake", "other", "marker"}, at : 0..now]

\* Journals whose lines are in the order they were written, none in the future.
Journals(now) ==
    {j \in UNION {[1..n -> JournalLines(now)] : n \in 0..MaxJournal} :
        \A i \in 1..Len(j) - 1 : j[i].at <= j[i + 1].at}

NoInput ==
    [probe |-> "", ok |-> TRUE, content |-> <<>>, cpu_count |-> 0, load |-> 0,
     journal |-> <<>>, now |-> 0, idle_times |-> <<>>]

\* What probe p reads from the host; ok is false when the source itself
\* fails (open, subprocess.run(check=True), os.getloadavg raise).
ProbeInputs(p) ==
    {[NoInput EXCEPT !.probe = p, !.ok = FALSE]} \cup
    CASE p = "proc_uptime" ->
            {[NoInput EXCEPT !.probe = p, !.content = <<<<s, 0>>>>] : s \in 0..MaxUptime}
            \cup {[NoInput EXCEPT !.probe = p, !.content = c] :
                     c \in {<<<<>>>>, <<<<601, 0>>, <<601, 0>>>>}}
      [] p = "proc_loadavg" ->
            {[NoInput EXCEPT !.probe = p, !.cpu_count = c, !.load = l] :
                     c \in 1..MaxCpu, l \in 0..MaxLoad}
      [] p = "systemd_wake" ->
            UNION {{[NoInput EXCEPT !.probe = p, !.now = n, !.journal = j] :
                     j \in Journals(n)} : n \in 0..MaxNow}
      [] p = "idle_terminal" ->
            {[NoInput EXCEPT !.probe = p, !.idle_times = t] :
                     t \in UNION {[1..n -> IdleFields] : n \in 0..MaxSessions}}

\* One probe about to be called on a host in a given condition.
InitProbe ==
    /\ \E p \in {"systemd_wake", "proc_uptime", "proc_loadavg", "idle_terminal"} :
          host \in ProbeInputs(p)
    /\ args = [list |-> FALSE, test |-> TRUE, verbose |-> FALSE, command |-> 0]
    /\ VERBOSE = TRUE
    /\ pc = "probe"
    /\ all_probes = <<host.probe>>
    /\ results = <<>>
    /\ final = "unset"
    /\ stdout = EmptyBag
    /\ exit_status = -1
    /\ exc = "none"
    /\ invoked = 0
    /\ sleeps = 0
    /\ launches = 0
    /\ cycles = 0
    /\ nfalse = 0
    /\ calls = <<>>

\* r = probe(), lines 214 and 258, for a call that ends with outcome r.
ProbeCalled(r) ==
    /\ pc = "probe"
    /\ invoked' = invoked + 1
    /\ calls' = Append(calls, all_probes[1])
    /\ pc' = "probed"
    /\ IF r = "raise"
       THEN /\ exc' = "probe_error"
            /\ exit_status' = 1
            /\ UNCHANGED results
       ELSE /\ results' = Append(results, r)
            /\ UNCHANGED <<exc, exit_status>>
    /\ UNCHANGED <<args, host, VERBOSE, all_probes, final, stdout,
                   sleeps, launches, cycles, nfalse>>

RunSystemdWake ==
    /\ host.probe = "systemd_wake"
    /\ ProbeCalled(IF host.ok THEN systemd_wake(host.journal, host.now) ELSE "raise")

RunProcUptime ==
    /\ host.probe = "proc_uptime"
    /\ ProbeCalled(IF host.ok THEN proc_uptime(host.content) ELSE "raise")

RunProcLoadavg ==
    /\ host.probe = "proc_loadavg"
    /\ ProbeCalled(IF host.ok THEN proc_loadavg(host.cpu_count, host.load) ELSE "raise")

RunIdleTerminal ==
    /\ host.probe = "idle_terminal"
    /\ ProbeCalled(IF host.ok THEN idle_terminal(host.idle_times) ELSE "raise")

NextProbe ==
    \/ RunSystemdWake
    \/ RunProcUptime
    \/ RunProcLoadavg
    \/ RunIdleTerminal

SpecProbe == InitProbe /\ [][NextProbe]_vars

\* ------------------------------------------------------------------ claims

NoBusy(rs) == \A i \in 1..Len(rs) : rs[i] # "False"

OneShot == ~args.list /\ ~args.test

Continuous == ~args.list /\ args.test

\* The decision of the current cycle has just been computed from `results`.
Decided == pc \in {"main_act", "main_sleep", "test_sleep"}

\* C1: in every cycle of the one-shot loop and of the --test loop the decision
\* is true exactly when no probe of the probe set returned False in that cycle
\* (True and None never block); the aggregation of any verdict sequence,
\* the all-None ones and the empty one included, is true exactly when it holds
\* no False.
C1_DecisionIffNoBusy ==
    /\ Decided => /\ Len(results) = Len(all_probes)
                  /\ final = PyBool(NoBusy(results))
                  /\ (pc = "main_act") = (OneShot /\ NoBusy(results))
    /\ \A s \in VerdictSeqs : Aggregate(s) = NoBusy(s)

C1_Witness ==
    /\ pc = "test_sleep"
    /\ results[1] = "None"
    /\ final = "True"

\* C2: in one-shot mode the command is launched at most once per run, and only
\* after a cycle whose decision is true, that is a cycle in which every probe
\* ran and none returned False.
C2_LaunchOnceAfterTrue ==
    /\ launches <= 1
    /\ launches = 1 => /\ OneShot
                       /\ final = "True"
                       /\ Len(results) = Len(all_probes)
                       /\ NoBusy(results)

C2_Witness ==
    /\ launches = 1
    /\ nfalse >= 1

\* C3: in one-shot mode, when the decision is false for the first N cycles and
\* true on cycle N+1, the loop launches the command and the process ends, and
\* it has slept exactly N times before the launch.
C3_SleepsNThenActs ==
    /\ [](pc = "main_act" => sleeps = nfalse /\ cycles = nfalse + 1)
    /\ [](launches = 1 => sleeps = nfalse /\ cycles = nfalse + 1)
    /\ (pc = "main_act") ~> (pc = "exited" /\ launches = 1 /\ sleeps = nfalse)

C3_Witness ==
    /\ pc = "exited"
    /\ launches = 1
    /\ nfalse = 2
    /\ sleeps = 2

\* C4 as stated: a probe that raises does not crash the process.
C4_Original == exc = "probe_error" => exit_status # 1

\* C4 amended: a probe that raises during a cycle ends the cycle and the
\* process: the probes after it are not called, no decision is computed for
\* that cycle, the command is not launched and the process exits with status 1.
C4_ProbeErrorEndsRun ==
    exc = "probe_error" =>
        /\ pc = "exited"
        /\ exit_status = 1
        /\ Len(results) < Len(all_probes)
        /\ invoked = cycles * Len(all_probes) + Len(results) + 1
        /\ sleeps = cycles
        /\ launches = 0

C4_Witness ==
    /\ exc = "probe_error"
    /\ cycles = 1
    /\ Len(results) = 2

Warned == CopiesIn(<<"process exited with", "nonzero">>, stdout) > 0

\* C5: in one-shot mode, once the command has been run the process ends,
\* whatever the command's exit code: a non-zero code only prints a warning and
\* the process still exits with status 0; no probe, sleep or launch follows.
C5_ActThenDone ==
    /\ [](launches >= 1 => pc = "exited")
    /\ [](Warned => launches = 1 /\ exc = "none" /\ exit_status = 0)
    /\ [](launches >= 1 /\ exc = "none" => exit_status = 0)
    /\ [][launches = 0]_vars

C5_Witness ==
    /\ Warned
    /\ exit_status = 0
    /\ pc = "exited"

\* C6 as stated: in --test mode the command is never launched and the loop
\* never terminates, for every sequence of probe outcomes.
C6_Original == Continuous => launches = 0 /\ pc # "exited"

\* C6 amended: in --test mode the command is never launched and the loop ends
\* only when a probe raises (the process then exits with status 1); for every
\* sequence of verdicts it prints the decision of every cycle, sleeps and
\* starts another cycle.
C6_TestNeverActs ==
    /\ [](Continuous =>
            /\ launches = 0
            /\ pc = "exited" => exc = "probe_error" /\ exit_status = 1
            /\ CountText(stdout, "final result") = cycles
            /\ CopiesIn(<<"final result", "False">>, stdout) = nfalse
            /\ pc = "test_sleep" => CopiesIn(<<"final result", final>>, stdout) >= 1
            /\ pc = "test_sleep" => sleeps = cycles - 1
            /\ pc # "test_sleep" => sleeps = cycles)
    /\ [][Continuous /\ pc = "test_sleep" => pc' = "test_loop"]_vars
    /\ [][Continuous /\ pc = "test_loop" => pc' = "test_probes"]_vars

C6_Witness ==
    /\ Continuous
    /\ pc = "test_probes"
    /\ cycles = 2
    /\ CopiesIn(<<"final result", "True">>, stdout) = 1
    /\ CopiesIn(<<"final result", "False">>, stdout) = 1

\* C7: when the command cannot be started the process ends with a non-zero
\* exit status; the launch is not retried and no further cycle runs.
C7_LaunchErrorFatal ==
    /\ [](exc = "launch_error" =>
            /\ pc = "exited"
            /\ exit_status # 0 /\ exit_status # -1
            /\ launches = 1)
    /\ [][exc # "launch_error"]_vars

C7_Witness ==
    /\ exc = "launch_error"
    /\ pc = "exited"
    /\ nfalse = 1

\* C8: with --list the program prints the names of the selected probes and
\* exits, calling no probe, never sleeping and never launching the command,
\* whichever of --test and a command are also given.
C8_ListOnly ==
    args.list =>
        /\ invoked = 0 /\ sleeps = 0 /\ launches = 0 /\ cycles = 0
        /\ pc \in {"parsed", "main", "exited"}
        /\ pc = "exited" =>
              /\ exit_status = 0
              /\ CopiesIn(<<"All Probes:", "">>, stdout) = 1
              /\ CountText(stdout, " * ") = Len(all_probes)
              /\ \A i \in 1..Len(all_probes) :
                    CopiesIn(<<" * ", all_probes[i]>>, stdout) = 1

C8_Witness ==
    /\ args.list /\ args.test /\ args.command = 1
    /\ pc = "exited"
    /\ Len(all_probes) = 5

\* C9: with no command and neither --list nor --test the program prints a
\* usage error and exits with a non-zero status before the loop starts: the
\* probe set is not built, no probe is called and no command is launched.
C9_UsageError ==
    (~args.list /\ ~args.test /\ args.command = 0) =>
        /\ all_probes = <<>>
        /\ invoked = 0 /\ sleeps = 0 /\ launches = 0 /\ cycles = 0
        /\ pc \in {"parsed", "exited"}
        /\ pc = "exited" =>
              /\ exit_status # 0 /\ exit_status # -1
              /\ CopiesIn(<<"usage", "">>, stdout) = 1

C9_Witness ==
    /\ pc = "exited"
    /\ CopiesIn(<<"usage", "">>, stdout) = 1
    /\ args.command = 0

\* The bijections of 1..n.
Perms(n) == {f \in [1..n -> 1..n] : \A i, j \in 1..n : f[i] = f[j] => i = j}

Permuted(rs, f) == [i \in 1..Len(rs) |-> rs[f[i]]]

\* C10: the decision does not depend on the order of the verdicts: the
\* aggregation of every permutation of a verdict sequence equals the decision
\* computed from the sequence itself.
C10_OrderIndependent ==
    pc = "aggregated" =>
        \A f \in Perms(Len(results)) : PyBool(Aggregate(Permuted(results, f))) = final

C10_Witness ==
    /\ pc = "aggregated"
    /\ results = <<"True", "None", "False", "True">>
    /\ final = "False"

\* ------------------------------------------------------------------ probe set and cycles

UsageCase == ~args.list /\ ~args.test /\ args.command = 0

\* init_probes has returned (main has been entered).
Built == pc \notin {"parsed", "aggregate", "aggregated"} /\ ~UsageCase

\* C11: the probe set built at start-up begins with systemd_wake, proc_uptime,
\* proc_loadavg, idle_terminal in that order, and holds xprintidle, as its last
\* element, exactly when xprintidle is found on the executable search path.
C11_ProbeSet ==
    Built =>
        /\ Len(all_probes) \in {4, 5}
        /\ SubSeq(all_probes, 1, 4) =
              <<"systemd_wake", "proc_uptime", "proc_loadavg", "idle_terminal">>
        /\ (\E i \in 1..Len(all_probes) : all_probes[i] = "xprintidle")
              <=> "xprintidle" \in host.on_path
        /\ Len(all_probes) = 5 => all_probes[5] = "xprintidle"

C11_Witness ==
    /\ pc = "main"
    /\ "xprintidle" \in host.on_path
    /\ all_probes[Len(all_probes)] = "xprintidle"

\* C16: within a cycle the probes are called one at a time in probe-set order,
\* each exactly once, and the decision is computed only after every probe of
\* the set has been called, also when an earlier probe returned False.
C16_NoShortCircuit ==
    /\ Len(calls) <= Len(all_probes)
    /\ calls = SubSeq(all_probes, 1, Len(calls))
    /\ Len(results) <= Len(calls) /\ Len(calls) <= Len(results) + 1
    /\ pc \in {"main_probes", "test_probes"} => Len(calls) < Len(all_probes)
    /\ (pc \in {"main_decide", "test_decide"} \/ Decided) =>
          /\ calls = all_probes
          /\ Len(results) = Len(all_probes)
    /\ Decided => invoked = cycles * Len(all_probes)

C16_Witness ==
    /\ pc = "main_sleep"
    /\ results[1] = "False"
    /\ calls = all_probes
    /\ Len(all_probes) = 5

\* C17: the decision of a cycle is a function of the verdicts returned in that
\* cycle only: every cycle starts from an empty result list, and the decision
\* step sets the decision from the current results whatever the earlier
\* decisions were.
C17_DecisionFresh ==
    /\ [][(pc \in {"main_loop", "test_loop"}) => (Len(results') = 0 /\ Len(calls') = 0)]_vars
    /\ [][(pc \in {"main_decide", "test_decide"}) =>
             /\ results' = results
             /\ final' = PyBool(NoBusy(results))
             /\ Len(results) = Len(all_probes)]_vars
    /\ [][final' # final => pc \in {"main_decide", "test_decide"}]_vars

C17_Witness ==
    /\ pc = "main_act"
    /\ nfalse = 2
    /\ final = "True"

\* C18: in both modes the first cycle runs with no sleep before it; a sleep
\* happens only after a completed cycle, after every cycle in --test mode and
\* after every false decision in one-shot mode, so the number of sleeps never
\* exceeds the number of completed cycles.
C18_SleepAfterCycle ==
    /\ [](sleeps <= cycles)
    /\ [](cycles = 0 => sleeps = 0)
    /\ [](Continuous => sleeps = IF pc = "test_sleep" THEN cycles - 1 ELSE cycles)
    /\ [](OneShot => sleeps = IF pc = "main_sleep" THEN nfalse - 1 ELSE nfalse)
    /\ [][sleeps' # sleeps => sleeps' = sleeps + 1 /\ pc \in {"main_sleep", "test_sleep"}]_vars

C18_Witness ==
    /\ Continuous
    /\ pc = "test_probes"
    /\ sleeps = 2
    /\ cycles = 2
    /\ final = "True"

\* C19: in one-shot mode the command is launched in the cycle that produced
\* the true decision: no sleep and no probe call lies between that decision
\* and the launch, and the verdicts of that cycle are the ones decided on.
C19_ActSameCycle ==
    /\ [][pc = "main_decide" /\ Aggregate(results) => pc' = "main_act"]_vars
    /\ [][pc = "main_act" =>
             /\ launches' = launches + 1
             /\ sleeps' = sleeps
             /\ invoked' = invoked
             /\ results' = results]_vars
    /\ [][launches' # launches =>
             /\ pc = "main_act"
             /\ final = "True"
             /\ NoBusy(results)
             /\ invoked = cycles * Len(all_probes)
             /\ sleeps = cycles - 1]_vars

C19_Witness ==
    /\ launches = 1
    /\ cycles = 3
    /\ sleeps = 2
    /\ invoked = 3 * Len(all_probes)

\* C20: in one-shot mode a probe that raises during a cycle ends the run
\* before a decision is computed for that cycle: the command is not launched
\* in that cycle or later, also when every other probe returned True or None.
C20_ProbeErrorNoLaunch ==
    /\ [](OneShot /\ exc = "probe_error" =>
            /\ launches = 0
            /\ pc = "exited"
            /\ final # "True"
            /\ cycles = nfalse
            /\ Len(results) < Len(all_probes))
    /\ [][exc # "probe_error"]_vars

C20_Witness ==
    /\ OneShot
    /\ exc = "probe_error"
    /\ Len(calls) = 3
    /\ results = <<"None", "True">>
    /\ cycles = 1

\* ------------------------------------------------------------------ probe claims

\* The call of the named probe has returned or raised, its source being readable.
Probed(p) == pc = "probed" /\ host.probe = p /\ host.ok

\* C12: the uptime probe returns True exactly when the uptime exceeds 600
\* seconds, for every whole-second uptime: True at 601 seconds, False at 599.
C12_UptimeOver600 ==
    (Probed("proc_uptime") /\ Len(host.content) = 1 /\ Len(host.content[1]) > 0) =>
        results = <<PyBool(host.content[1][1] > 600)>>

\* C13: the load-average probe returns True exactly when the load is strictly
\* less than half the CPU count (2 * load < cpu_count), odd counts included.
C13_LoadBelowHalf ==
    Probed("proc_loadavg") =>
        results = <<PyBool(2 * host.load < 100 * host.cpu_count)>>

WakeAt(j) == {j[i].at : i \in {k \in 1..Len(j) : j[k].kind = "wake"}}

LastWake(j) == CHOOSE t \in WakeAt(j) : \A u \in WakeAt(j) : u <= t

\* Every line of the journal was written in the calendar year of `now`.
SameYear(j, now) ==
    \A i \in 1..Len(j) : j[i].at \div YearMinutes = now \div YearMinutes

\* C14: the wake-recency probe returns None when the journal holds no wake
\* line, and otherwise True exactly when at least 10 minutes have passed since
\* the last wake line was written, whatever lines follow it (stated here for
\* journals of the current year).
C14_WakeRecency ==
    (Probed("systemd_wake") /\ SameYear(host.journal, host.now)) =>
        results = <<IF WakeAt(host.journal) = {} THEN "None"
                    ELSE PyBool(host.now - LastWake(host.journal) >= 10)>>

Inactivity(f) ==
    CASE f.text = "."     -> 0
      [] f.text = "old"   -> 24 * 60
      [] f.text = "hh:mm" -> f.h * 60 + f.m

\* C15: for every non-empty set of sessions the terminal probe returns a
\* verdict: True exactly when the least inactivity over all sessions is at
\* least 5 minutes, an active session counting as zero minutes.
C15_TerminalMin ==
    (Probed("idle_terminal") /\ host.idle_times # <<>>) =>
        results = <<PyBool(\A i \in 1..Len(host.idle_times) :
                              Inactivity(host.idle_times[i]) >= 5)>>

====
